---- MODULE Spec2Model ----
(***************************************************************************)
(* A model of htop's Machine.c: the table registry                         *)
(* (Machine_addTable, Machine_populateTablesFromSettings), the scan cycle  *)
(* (Machine_scanTables) and the accumulation of resident memory up the     *)
(* process tree (Machine_populateAccumulatedFields,                        *)
(* Machine_populateAccForProcess).                                         *)
(*                                                                         *)
(* C arrays are 0-based, TLA+ sequences 1-based: a C index i is i + 1      *)
(* here.  A NULL pointer and the parent id "none" are both 0.              *)
(***************************************************************************)
EXTENDS Integers, Sequences, FiniteSets, TLC

\* ---------------------------------------------------------------- bounds
MaxTables == 2      \* distinct Table objects that exist
MaxScreens == 2     \* settings->nScreens is at most this
MaxPopulate == 2    \* calls of Machine_populateTablesFromSettings
MaxRows == 3        \* rows of the process table in the accumulator runs
MaxRaw == 1         \* largest m_resident a row is ingested with
MaxPasses == 2      \* accumulator passes run back to back
MaxClock == 3       \* largest value Platform_gettime_monotonic writes
MaxCycles == 3      \* calls of Machine_scanTables
MaxUid == 1         \* largest user id an ingest observes
ScanRows == 2       \* rows of the process table inside a scan cycle

NULL == 0
UNCOMPUTED == -1

Tables == 1..MaxTables

VARIABLES
  tables,           \* this->tables, the registry
  tableCount,       \* this->tableCount
  activeTable,      \* this->activeTable
  processTable,     \* this->processTable
  settings,         \* this->settings: screens[i]->table of each screen
  si,               \* loop index of Machine_populateTablesFromSettings
  populateCalls,    \* history: calls of Machine_populateTablesFromSettings
  pc,               \* what the program is executing
  rows,             \* this->processTable->rows: id, parent, m_resident, m_accResident
  ai,               \* loop index of the second loop of Machine_populateAccumulatedFields
  stack,            \* call stack of Machine_populateAccForProcess: cur, i, phase
  pass,             \* history: accumulator passes started
  raw0,             \* history: m_resident of every row when the pass started
  accPrev,          \* history: m_accResident of every row when the pass started
  links0,           \* history: id and parent of every row when the pass started
  visits,           \* history: calls of Machine_populateAccForProcess in the pass
  compares,         \* history: evaluations of line 110 in the pass
  bodyRuns,         \* history: per row, how often the pass ran line 105 for it
  firstScanDone,    \* the static flag of Machine_scanTables
  prevMonotonicMs,  \* this->prevMonotonicMs
  monotonicMs,      \* this->monotonicMs
  maxUserId,        \* this->maxUserId
  uidColumnWidth,   \* the value last passed to Row_setUidColumnWidth
  ti,               \* loop index of the table loop of Machine_scanTables
  dataStamp,        \* per table: the cycle whose ingest its data comes from
  cycle,            \* history: calls of Machine_scanTables
  log,              \* history: the hook calls of the current cycle, in order
  hookFailed,       \* history: a hook of the current cycle signalled failure
  monoHist,         \* history: monotonicMs of every cycle that passed line 149
  entryMaxUid,      \* history: maxUserId when the current cycle was entered
  published,        \* history: calls of Row_setUidColumnWidth
  seenMax           \* history: largest user id the ingests of the current cycle saw

regVars == <<tables, tableCount, activeTable, processTable, settings, si, populateCalls>>
workVars == <<links0, visits, compares, bodyRuns>>
accVars == <<rows, ai, stack, pass, raw0, accPrev, workVars>>
pubVars == <<published, seenMax>>
scanVars == <<firstScanDone, prevMonotonicMs, monotonicMs, maxUserId, uidColumnWidth,
              ti, dataStamp, cycle, log, hookFailed, monoHist, entryMaxUid, pubVars>>
vars == <<regVars, pc, accVars, scanVars>>

\* ------------------------------------------------------------ the registry

Range(s) == {s[k] : k \in 1..Len(s)}

\* Machine_addTable with the duplicate check dropped.
Machine_addTable_NoCheck(tbls, cnt, table) ==
  [tables |-> SubSeq(tbls, 1, cnt) \o <<table>>, tableCount |-> cnt + 1]

\* Machine_addTable: the registry after the call.
Machine_addTable(tbls, cnt, table) ==
  IF \E k \in 1..cnt : tbls[k] = table
    THEN [tables |-> tbls, tableCount |-> cnt]
    ELSE [tables |-> SubSeq(tbls, 1, cnt) \o <<table>>, tableCount |-> cnt + 1]

\* The settings a caller can pass: per screen its table, NULL when it has none.
ScreenSettings == UNION {[1..k -> Tables \cup {NULL}] : k \in 0..MaxScreens}

\* Lines 77-78 and the loop header: the call begins (at most limit calls).
PopulateCall(limit) ==
  /\ pc = "ready"
  /\ populateCalls < limit
  /\ \E screens \in ScreenSettings, pt \in Tables :
       /\ settings' = screens
       /\ processTable' = pt
  /\ si' = 1
  /\ populateCalls' = populateCalls + 1
  /\ pc' = "populating"
  /\ UNCHANGED <<tables, tableCount, activeTable, accVars, scanVars>>

\* Any call of Machine_populateTablesFromSettings.
PopulateBegin == PopulateCall(MaxPopulate)

\* Lines 83-84 left out: a screen without a table is not given the process table.
ScreenTable_NoDefault(i) == settings[i]

\* The table one loop iteration registers (lines 82-84).
ScreenTable(i) == IF settings[i] = NULL THEN processTable ELSE settings[i]

\* activeTable after the iteration for screen i (lines 85-86).
ActiveAfter_Unset(i, table) == IF i = 1 /\ activeTable = NULL THEN table ELSE activeTable

ActiveAfter(i, table) == IF i = 1 THEN table ELSE activeTable

\* One iteration of the loop of lines 80-89.
PopulateStep ==
  /\ pc = "populating"
  /\ si <= Len(settings)
  /\ LET table == ScreenTable(si)
         reg == Machine_addTable(tables, tableCount, table)
     IN /\ settings' = [settings EXCEPT ![si] = table]
        /\ activeTable' = ActiveAfter(si, table)
        /\ tables' = reg.tables
        /\ tableCount' = reg.tableCount
  /\ si' = si + 1
  /\ UNCHANGED <<processTable, populateCalls, pc, accVars, scanVars>>

\* The loop ends and the call returns.
PopulateReturn ==
  /\ pc = "populating"
  /\ si > Len(settings)
  /\ pc' = "ready"
  /\ UNCHANGED <<regVars, scanVars, accVars>>

InitReg ==
  /\ tables = <<>>
  /\ tableCount = 0
  /\ activeTable = NULL
  /\ processTable = NULL
  /\ settings = <<>>
  /\ si = 1
  /\ populateCalls = 0

InitAccVars ==
  /\ rows = <<>>
  /\ ai = 1
  /\ stack = <<>>
  /\ pass = 0
  /\ raw0 = <<>>
  /\ accPrev = <<>>
  /\ links0 = <<>>
  /\ visits = 0
  /\ compares = 0
  /\ bodyRuns = <<>>

InitScanVars ==
  /\ firstScanDone = FALSE
  /\ prevMonotonicMs = 0
  /\ monotonicMs = 0
  /\ maxUserId = 0
  /\ uidColumnWidth = 0
  /\ ti = 1
  /\ dataStamp = [t \in Tables |-> 0]
  /\ cycle = 0
  /\ log = <<>>
  /\ hookFailed = FALSE
  /\ monoHist = <<>>
  /\ entryMaxUid = 0
  /\ published = 0
  /\ seenMax = 0

\* The machine after construction: zeroed memory, no table registered.
Init == InitReg /\ pc = "ready" /\ InitAccVars /\ InitScanVars

NextReg == PopulateBegin \/ PopulateStep \/ PopulateReturn

SpecReg == Init /\ [][NextReg]_vars

\* --------------------------------------------------------- the accumulator

Row(id, parent, res, acc) ==
  [id |-> id, parent |-> parent, m_resident |-> res, m_accResident |-> acc]

\* The row vectors of at most n rows: ids and parents are drawn freely, so ids
\* repeat, parents dangle (NULL or an id no row has) and parent links form cycles.
RowSets(n) ==
  UNION {[1..k -> [id : 1..n, parent : 0..n, m_resident : 0..MaxRaw,
                   m_accResident : {UNCOMPUTED}]] : k \in 0..n}

Indices(rws) == 1..Len(rws)
DistinctIds(rws) == \A a, b \in Indices(rws) : rws[a].id = rws[b].id => a = b

\* What an ingest leaves in the process table: at most n rows, one per process id.
IngestedRowSets(n) == {rws \in RowSets(n) : DistinctIds(rws)}

\* The two end-to-end scenarios of the documentation.
ScenarioTree ==
  <<Row(1, NULL, 100, UNCOMPUTED), Row(2, 1, 50, UNCOMPUTED),
    Row(3, 1, 25, UNCOMPUTED), Row(4, 2, 10, UNCOMPUTED)>>

ScenarioOrphan == <<Row(1, 99, 5, UNCOMPUTED)>>

\* A table of five processes none of which is the parent of another.
ScenarioWide == [k \in 1..5 |-> Row(k, NULL, 1, UNCOMPUTED)]

LinksOf(rws) == [k \in 1..Len(rws) |-> <<rws[k].id, rws[k].parent>>]
RawOf(rws) == [k \in 1..Len(rws) |-> rws[k].m_resident]
AccOf(rws) == [k \in 1..Len(rws) |-> rws[k].m_accResident]

\* Lines 121-124 left out: the rows keep what the pass before left in them.
ResetAll_Keep(rws) == rws

\* Lines 121-124: every row is set to the sentinel.
ResetAll(rws) == [k \in 1..Len(rws) |-> [rws[k] EXCEPT !.m_accResident = UNCOMPUTED]]

\* Line 101: the row has been computed (or is being computed) in this pass.
Memoized(rws, cur) == rws[cur].m_accResident # UNCOMPUTED

\* Line 105 left out: the row is not marked before its children are visited.
StartRow_NoMark(rws, cur) == rws

\* Line 105 starting the total at zero.
StartRow_Zero(rws, cur) == [rws EXCEPT ![cur].m_accResident = 0]

\* Line 105: the row's total starts as its own resident size.
StartRow(rws, cur) == [rws EXCEPT ![cur].m_accResident = rws[cur].m_resident]

\* Line 108.
IsSelf(i, cur) == i = cur

\* Line 110 accepting only rows that stand after row cur.
IsChild_After(rws, i, cur) == i > cur /\ rws[i].parent = rws[cur].id

\* Line 110: row i is a child of row cur.
IsChild(rws, i, cur) == rws[i].parent = rws[cur].id

\* Line 111 with = in place of +=.
AddReturned_Overwrite(rws, cur, ret) == [rws EXCEPT ![cur].m_accResident = ret]

\* Line 111 adding the returned value twice.
AddReturned_Twice(rws, cur, ret) ==
  [rws EXCEPT ![cur].m_accResident = rws[cur].m_accResident + ret + ret]

\* Line 111: the value a call returned is added to the caller's row.
AddReturned(rws, cur, ret) ==
  [rws EXCEPT ![cur].m_accResident = rws[cur].m_accResident + ret]

\* Lines 130-134: the accumulated value is copied over the resident size.
CopyBack(rws) == [k \in 1..Len(rws) |-> [rws[k] EXCEPT !.m_resident = rws[k].m_accResident]]

\* Machine_populateAccForProcess and its loop of lines 107-113 as functions from
\* the row vector before the call to the row vector after it; the value the
\* call returns is m_accResident of row cur in the result.
RECURSIVE PopulateAccForProcess(_, _), ChildLoop(_, _, _), OuterLoop(_, _)
PopulateAccForProcess(rws, cur) ==
  IF Memoized(rws, cur) THEN rws ELSE ChildLoop(StartRow(rws, cur), cur, 1)

ChildLoop(rws, cur, i) ==
  IF i > Len(rws) THEN rws
  ELSE IF IsSelf(i, cur) \/ ~IsChild(rws, i, cur) THEN ChildLoop(rws, cur, i + 1)
  ELSE LET after == PopulateAccForProcess(rws, i)
       IN ChildLoop(AddReturned(after, cur, after[i].m_accResident), cur, i + 1)

\* Lines 126-128: the calls for rows a, a + 1, ..., n.
OuterLoop(rws, a) ==
  IF a > Len(rws) THEN rws ELSE OuterLoop(PopulateAccForProcess(rws, a), a + 1)

\* Machine_populateAccumulatedFields as a function on the row vector.
PopulateAccumulatedFields(rws) == CopyBack(OuterLoop(ResetAll(rws), 1))

Top == stack[Len(stack)]
Frame(cur, i, phase) == [cur |-> cur, i |-> i, phase |-> phase]

\* Lines 118-124 of Machine_populateAccumulatedFields.
AccReset ==
  /\ pc = "acc_reset"
  /\ rows' = ResetAll(rows)
  /\ raw0' = RawOf(rows)
  /\ accPrev' = AccOf(rows)
  /\ links0' = LinksOf(rows)
  /\ visits' = 0
  /\ compares' = 0
  /\ bodyRuns' = [k \in 1..Len(rows) |-> 0]
  /\ pass' = pass + 1
  /\ ai' = 1
  /\ pc' = "acc_outer"
  /\ UNCHANGED <<regVars, scanVars, stack>>

\* Lines 126-127: the second loop calls Machine_populateAccForProcess(rows, n, ai).
AccOuterCall ==
  /\ pc = "acc_outer"
  /\ ai <= Len(rows)
  /\ stack' = <<Frame(ai, 1, "enter")>>
  /\ visits' = visits + 1
  /\ pc' = "acc_call"
  /\ UNCHANGED <<regVars, scanVars, rows, ai, pass, raw0, accPrev, links0, compares, bodyRuns>>

\* Line 126: the second loop ends.
AccOuterExit ==
  /\ pc = "acc_outer"
  /\ ai > Len(rows)
  /\ pc' = "acc_copy"
  /\ UNCHANGED <<regVars, scanVars, accVars>>

\* A return of Machine_populateAccForProcess: to the loop of line 126, which
\* drops the value, or to line 111 of the calling frame, which adds it.
Return(rws) ==
  LET ret == rws[Top.cur].m_accResident
      d == Len(stack)
  IN IF d = 1
       THEN /\ stack' = <<>>
            /\ rows' = rws
            /\ ai' = ai + 1
            /\ pc' = "acc_outer"
       ELSE /\ stack' = [SubSeq(stack, 1, d - 1) EXCEPT ![d - 1].i = stack[d - 1].i + 1]
            /\ rows' = AddReturned(rws, stack[d - 1].cur, ret)
            /\ ai' = ai
            /\ pc' = "acc_call"

\* Lines 99-103: the row is already computed, its value is returned.
AccEnterMemoized ==
  /\ pc = "acc_call"
  /\ Top.phase = "enter"
  /\ Memoized(rows, Top.cur)
  /\ Return(rows)
  /\ UNCHANGED <<regVars, scanVars, pass, raw0, accPrev, workVars>>

\* Lines 99-105: the row is not computed yet, its body starts.
AccEnterFresh ==
  /\ pc = "acc_call"
  /\ Top.phase = "enter"
  /\ ~Memoized(rows, Top.cur)
  /\ rows' = StartRow(rows, Top.cur)
  /\ stack' = [stack EXCEPT ![Len(stack)].phase = "loop"]
  /\ bodyRuns' = [bodyRuns EXCEPT ![Top.cur] = bodyRuns[Top.cur] + 1]
  /\ UNCHANGED <<regVars, scanVars, pc, ai, pass, raw0, accPrev, links0, visits, compares>>

\* Lines 107-110: row i is the row itself or not a child of it.
AccLoopSkip ==
  /\ pc = "acc_call"
  /\ Top.phase = "loop"
  /\ Top.i <= Len(rows)
  /\ IsSelf(Top.i, Top.cur) \/ ~IsChild(rows, Top.i, Top.cur)
  /\ stack' = [stack EXCEPT ![Len(stack)].i = Top.i + 1]
  /\ compares' = IF IsSelf(Top.i, Top.cur) THEN compares ELSE compares + 1
  /\ UNCHANGED <<regVars, scanVars, pc, rows, ai, pass, raw0, accPrev, links0, visits, bodyRuns>>

\* Lines 110-111: row i is a child, the function calls itself for it.
AccLoopCall ==
  /\ pc = "acc_call"
  /\ Top.phase = "loop"
  /\ Top.i <= Len(rows)
  /\ ~IsSelf(Top.i, Top.cur)
  /\ IsChild(rows, Top.i, Top.cur)
  /\ stack' = Append(stack, Frame(Top.i, 1, "enter"))
  /\ compares' = compares + 1
  /\ visits' = visits + 1
  /\ UNCHANGED <<regVars, scanVars, pc, rows, ai, pass, raw0, accPrev, links0, bodyRuns>>

\* Lines 107 and 114: the loop ends, the row's total is returned.
AccLoopExit ==
  /\ pc = "acc_call"
  /\ Top.phase = "loop"
  /\ Top.i > Len(rows)
  /\ Return(rows)
  /\ UNCHANGED <<regVars, scanVars, pass, raw0, accPrev, workVars>>

\* Lines 130-134: the third loop; Machine_populateAccumulatedFields returns.
AccCopyBack ==
  /\ pc = "acc_copy"
  /\ rows' = CopyBack(rows)
  /\ pc' = "acc_done"
  /\ UNCHANGED <<regVars, scanVars, ai, stack, pass, raw0, accPrev, workVars>>

Accumulate ==
  \/ AccReset \/ AccOuterCall \/ AccOuterExit
  \/ AccEnterMemoized \/ AccEnterFresh
  \/ AccLoopSkip \/ AccLoopCall \/ AccLoopExit
  \/ AccCopyBack

\* Machine_populateAccumulatedFields is run again on the rows as they are.
AccRerun ==
  /\ pc = "acc_done"
  /\ pass < MaxPasses
  /\ pc' = "acc_reset"
  /\ UNCHANGED <<regVars, scanVars, accVars>>

\* The accumulator on its own: a machine with the process table registered is
\* in its first cycle, the table loop done, about to run
\* Machine_populateAccumulatedFields over some row vector.
InitAcc ==
  /\ tables = <<1>>
  /\ tableCount = 1
  /\ activeTable = 1
  /\ processTable = 1
  /\ settings = <<1>>
  /\ si = 2
  /\ populateCalls = 1
  /\ pc = "acc_reset"
  /\ rows \in RowSets(MaxRows) \cup {ScenarioTree, ScenarioOrphan, ScenarioWide}
  /\ ai = 1
  /\ stack = <<>>
  /\ pass = 0
  /\ raw0 = <<>>
  /\ accPrev = <<>>
  /\ links0 = <<>>
  /\ visits = 0
  /\ compares = 0
  /\ bodyRuns = <<>>
  /\ firstScanDone = TRUE
  /\ prevMonotonicMs = 0
  /\ monotonicMs = 1
  /\ maxUserId = 0
  /\ uidColumnWidth = 0
  /\ ti = 2
  /\ dataStamp = [t \in Tables |-> IF t = 1 THEN 1 ELSE 0]
  /\ cycle = 1
  /\ log = <<<<"prepare", 1>>, <<"iterate", 1>>, <<"cleanup", 1>>>>
  /\ hookFailed = FALSE
  /\ monoHist = <<1>>
  /\ entryMaxUid = 0
  /\ published = 0
  /\ seenMax = 0

NextAcc == Accumulate \/ AccRerun

SpecAcc == InitAcc /\ [][NextAcc]_vars

\* The C program keeps executing: a step that can be taken is taken.
SpecAccFair == SpecAcc /\ WF_vars(NextAcc)

\* ---------------------------------------------------------- the scan cycle

\* Lines 141-148 without line 142: the previous time is not saved.
TimeStamp_NoSave(first, mono, now) ==
  IF first THEN [prev |-> prevMonotonicMs, mono |-> now] ELSE [prev |-> 0, mono |-> 1]

\* Lines 141-148: previous and current logical time of the cycle; now is what
\* Platform_gettime_monotonic writes.
TimeStamp(first, mono, now) ==
  IF first THEN [prev |-> mono, mono |-> now] ELSE [prev |-> 0, mono |-> 1]

\* Line 149 with >= in place of >.
AssertHolds_Geq(mono, prev) == mono >= prev

\* Line 149: the condition of the assertion.
AssertHolds(mono, prev) == mono > prev

\* The three hook calls in another order: prepare, cleanup, ingest.
HookNext_Swapped(hook) ==
  CASE hook = "prepare" -> "cleanup"
    [] hook = "cleanup" -> "iterate"
    [] hook = "iterate" -> "tables"

\* The scan returning as soon as a hook has signalled failure.
HookNext_ReturnOnFailure(hook) ==
  IF hookFailed' THEN "ready"
  ELSE CASE hook = "prepare" -> "iterate"
         [] hook = "iterate" -> "cleanup"
         [] hook = "cleanup" -> "tables"

\* Lines 158-164: what follows a hook call, whatever the hook signalled.
HookNext(hook) ==
  CASE hook = "prepare" -> "iterate"
    [] hook = "iterate" -> "cleanup"
    [] hook = "cleanup" -> "tables"

\* What a hook can signal: it ends well or it fails.
HookOutcomes == BOOLEAN

Max(a, b) == IF a >= b THEN a ELSE b

\* Lines 141-148: Machine_scanTables is called and stamps the cycle.
ScanBegin ==
  /\ pc = "ready"
  /\ processTable # NULL
  /\ cycle < MaxCycles
  /\ \E now \in 0..MaxClock :
       LET ts == TimeStamp(firstScanDone, monotonicMs, now)
       IN /\ prevMonotonicMs' = ts.prev
          /\ monotonicMs' = ts.mono
  /\ firstScanDone' = TRUE
  /\ cycle' = cycle + 1
  /\ log' = <<>>
  /\ hookFailed' = FALSE
  /\ entryMaxUid' = maxUserId
  /\ raw0' = <<>>
  /\ accPrev' = <<>>
  /\ links0' = <<>>
  /\ visits' = 0
  /\ compares' = 0
  /\ bodyRuns' = <<>>
  /\ seenMax' = 0
  /\ pc' = "assert"
  /\ UNCHANGED <<regVars, rows, ai, stack, pass, maxUserId, uidColumnWidth, ti, dataStamp,
                 monoHist, published>>

\* Line 149: the assertion holds and the cycle proceeds.
ScanAssertPass ==
  /\ pc = "assert"
  /\ AssertHolds(monotonicMs, prevMonotonicMs)
  /\ monoHist' = Append(monoHist, monotonicMs)
  /\ pc' = "reset"
  /\ UNCHANGED <<regVars, accVars, firstScanDone, prevMonotonicMs, monotonicMs, maxUserId,
                 uidColumnWidth, ti, dataStamp, cycle, log, hookFailed, entryMaxUid, pubVars>>

\* Line 149: the assertion fails and the process aborts.
ScanAssertFail ==
  /\ pc = "assert"
  /\ ~AssertHolds(monotonicMs, prevMonotonicMs)
  /\ pc' = "aborted"
  /\ UNCHANGED <<regVars, accVars, scanVars>>

\* Line 151 left out: the running maximum is carried over.
ResetMaxUserId_Keep == maxUserId

\* Line 151: the value the running maximum is reset to.
ResetMaxUserId == 0

\* Lines 151-154: the running maximum is reset and the table loop starts.
ScanReset ==
  /\ pc = "reset"
  /\ maxUserId' = ResetMaxUserId
  /\ ti' = 1
  /\ pc' = "tables"
  /\ UNCHANGED <<regVars, accVars, firstScanDone, prevMonotonicMs, monotonicMs,
                 uidColumnWidth, dataStamp, cycle, log, hookFailed, monoHist, entryMaxUid,
                 pubVars>>

\* Lines 154-155: the loop takes the next registered table.
ScanNextTable ==
  /\ pc = "tables"
  /\ ti <= tableCount
  /\ pc' = "prepare"
  /\ UNCHANGED <<regVars, accVars, scanVars>>

\* Line 167 left out: the scan goes from the table loop to line 169.
AfterTableLoop_NoAccumulator == "acc_done"

\* Line 167: what follows the table loop.
AfterTableLoop == "acc_reset"

\* Lines 154 and 167: the loop ends, Machine_populateAccumulatedFields is called.
ScanTablesDone ==
  /\ pc = "tables"
  /\ ti > tableCount
  /\ pc' = AfterTableLoop
  /\ UNCHANGED <<regVars, accVars, scanVars>>

\* Line 158: Table_scanPrepare(table).
TablePrepare ==
  /\ pc = "prepare"
  /\ log' = Append(log, <<"prepare", tables[ti]>>)
  /\ \E ok \in HookOutcomes : hookFailed' = (hookFailed \/ ~ok)
  /\ pc' = HookNext("prepare")
  /\ UNCHANGED <<regVars, accVars, firstScanDone, prevMonotonicMs, monotonicMs, maxUserId,
                 uidColumnWidth, ti, dataStamp, cycle, monoHist, entryMaxUid, pubVars>>

\* Line 161: Table_scanIterate(table) ingests the table: the process table gets
\* a new row vector, and the running maximum user id grows to what was seen.
TableIterate ==
  /\ pc = "iterate"
  /\ log' = Append(log, <<"iterate", tables[ti]>>)
  /\ \E ok \in HookOutcomes : hookFailed' = (hookFailed \/ ~ok)
  /\ dataStamp' = [dataStamp EXCEPT ![tables[ti]] = cycle]
  /\ IF tables[ti] = processTable
       THEN rows' \in IngestedRowSets(ScanRows)
       ELSE rows' = rows
  /\ \E uid \in 0..MaxUid :
       /\ maxUserId' = Max(maxUserId, uid)
       /\ seenMax' = Max(seenMax, uid)
  /\ pc' = HookNext("iterate")
  /\ UNCHANGED <<regVars, ai, stack, pass, raw0, accPrev, workVars, firstScanDone,
                 prevMonotonicMs, monotonicMs, uidColumnWidth, ti, cycle, monoHist,
                 entryMaxUid, published>>

\* Line 164: Table_scanCleanup(table); the loop index advances.
TableCleanup ==
  /\ pc = "cleanup"
  /\ log' = Append(log, <<"cleanup", tables[ti]>>)
  /\ \E ok \in HookOutcomes : hookFailed' = (hookFailed \/ ~ok)
  /\ pc' = HookNext("cleanup")
  /\ ti' = ti + 1
  /\ UNCHANGED <<regVars, accVars, firstScanDone, prevMonotonicMs, monotonicMs, maxUserId,
                 uidColumnWidth, dataStamp, cycle, monoHist, entryMaxUid, pubVars>>

\* Line 169: Row_setUidColumnWidth(this->maxUserId); Machine_scanTables returns.
ScanPublish ==
  /\ pc = "acc_done"
  /\ uidColumnWidth' = maxUserId
  /\ published' = published + 1
  /\ pc' = "ready"
  /\ UNCHANGED <<regVars, accVars, firstScanDone, prevMonotonicMs, monotonicMs, maxUserId,
                 ti, dataStamp, cycle, log, hookFailed, monoHist, entryMaxUid, seenMax>>

\* The program sets its tables up once, before the first scan.
Startup == cycle = 0 /\ PopulateCall(1)

Next ==
  \/ Startup \/ PopulateStep \/ PopulateReturn
  \/ ScanBegin \/ ScanAssertPass \/ ScanAssertFail \/ ScanReset
  \/ ScanNextTable \/ ScanTablesDone
  \/ TablePrepare \/ TableIterate \/ TableCleanup
  \/ Accumulate
  \/ ScanPublish

Spec == Init /\ [][Next]_vars

\* ------------------------------------------------- claims on the registry

\* C5: the registry never holds a table twice; registering a table already
\* present leaves the registry as it is, registering a new one appends it as
\* the last entry, and no step removes or moves an earlier entry.
C5_RegistryNoDuplicatesAppendOnly ==
  /\ [](/\ tableCount = Len(tables)
        /\ \A a, b \in 1..Len(tables) : tables[a] = tables[b] => a = b)
  /\ [][(pc = "populating" /\ si <= Len(settings)) =>
          IF ScreenTable(si) \in Range(tables)
            THEN tables' = tables /\ tableCount' = tableCount
            ELSE tables' = Append(tables, ScreenTable(si))]_vars
  /\ [][Len(tables') >= Len(tables) /\ SubSeq(tables', 1, Len(tables)) = tables]_vars

\* A second call whose two screens name the same table has registered it once.
C5_Witness ==
  /\ pc = "populating" /\ populateCalls = 2 /\ si = 3
  /\ settings[1] = settings[2]
  /\ tableCount = 2 /\ tables[2] = settings[1]

RECURSIVE SumOver(_, _)
SumOver(f, S) ==
  IF S = {} THEN 0
  ELSE LET x == CHOOSE y \in S : TRUE IN f[x] + SumOver(f, S \ {x})

\* The rows whose parent is the id of row k.
ChildrenOf(rws, k) == {j \in Indices(rws) : rws[j].parent = rws[k].id}
\* Row k's parent id is the id of no row.
Dangling(rws, k) == \A j \in Indices(rws) : rws[j].id # rws[k].parent
RootsOf(rws) == {k \in Indices(rws) : Dangling(rws, k)}
\* The row that row k names as its parent, 0 when there is none (ids distinct).
ParentIdx(rws, k) ==
  IF Dangling(rws, k) THEN 0 ELSE CHOOSE j \in Indices(rws) : rws[j].id = rws[k].parent
RECURSIVE Up(_, _, _)
Up(rws, k, m) == IF k = 0 \/ m = 0 THEN k ELSE Up(rws, ParentIdx(rws, k), m - 1)
\* Following parent links from any row leaves the table: no cycle.
Acyclic(rws) == \A k \in Indices(rws) : Up(rws, k, Len(rws)) = 0

SameLinks(rws, scenario) ==
  /\ Len(rws) = Len(scenario)
  /\ \A k \in Indices(rws) : rws[k].id = scenario[k].id /\ rws[k].parent = scenario[k].parent

\* The general part of C1: every row is its raw value plus its children's
\* accumulated values, and the roots sum to the sum of all raw values.
RawPlusChildren ==
  /\ \A k \in Indices(rows) :
       rows[k].m_accResident = raw0[k] + SumOver(AccOf(rows), ChildrenOf(rows, k))
  /\ SumOver(AccOf(rows), RootsOf(rows)) = SumOver(raw0, Indices(rows))

TreeScenarioRan == SameLinks(rows, ScenarioTree) /\ raw0 = RawOf(ScenarioTree)

\* C1 as stated: for distinct ids and acyclic parent links, after the pass
\* every row's accumulated value is its raw value at the start of the pass
\* plus the accumulated values of its children, the roots' accumulated values
\* sum to the sum of all raw values, and the documented tree
\* (1,none,100),(2,1,50),(3,1,25),(4,2,10) gives 195, 60, 25, 10.
C1_AsStated ==
  (pc = "acc_done" /\ DistinctIds(rows) /\ Acyclic(rows)) =>
    /\ RawPlusChildren
    /\ TreeScenarioRan => AccOf(rows) = <<195, 60, 25, 10>>

\* C1 amended: the same, with the documented tree giving 185, 60, 25, 10
\* (100 + 60 + 25 is 185, which is also the sum of the four raw values).
C1_AccumulatedIsRawPlusChildren ==
  (pc = "acc_done" /\ DistinctIds(rows) /\ Acyclic(rows)) =>
    /\ RawPlusChildren
    /\ TreeScenarioRan => AccOf(rows) = <<185, 60, 25, 10>>

\* The documented tree has been accumulated.
C1_Witness ==
  /\ pc = "acc_done" /\ pass = 1
  /\ DistinctIds(rows) /\ Acyclic(rows) /\ TreeScenarioRan
  /\ AccOf(rows) = <<185, 60, 25, 10>>

\* C3: whatever the parent links are (dangling, self-parent, mutual and longer
\* cycles), a pass that starts ends, the recursion holds every row at most
\* once below its top frame (so it is at most one deeper than the number of
\* rows), and at the end every accumulated value is non-negative.
C3_PassTerminates ==
  /\ (pc = "acc_reset") ~> (pc = "acc_done")
  /\ [](/\ Len(stack) <= Len(rows) + 1
        /\ \A d, e \in 1..(Len(stack) - 1) : stack[d].cur = stack[e].cur => d = e)
  /\ [](pc = "acc_done" => \A k \in Indices(rows) : rows[k].m_accResident >= 0)

\* A pass has ended over three rows none of which is a root: every parent
\* chain runs into a cycle (a self-parent, a mutual cycle or a three-row cycle).
C3_Witness ==
  /\ pc = "acc_done"
  /\ Len(rows) = 3
  /\ DistinctIds(rows)
  /\ \A k \in Indices(rows) : ~Dangling(rows, k)
  /\ \E k \in Indices(rows) : rows[k].m_resident > 0

\* C4 as stated: a second pass with no ingest in between leaves every row
\* with the accumulated value the first pass gave it (the value the row held
\* when the second pass started).
C4_SecondPassSameValues ==
  (pc = "acc_done" /\ pass = 2) => AccOf(rows) = accPrev

\* C7: a row whose parent id is the id of no row is never visited as a child,
\* so its value is added to no other row, and after the pass its accumulated
\* value is its raw value plus the accumulated values of its children; the
\* documented orphan (id 1, parent 99, raw 5) gets 5.
C7_DanglingParentIsRoot ==
  /\ \A d \in 2..Len(stack) : ~Dangling(rows, stack[d].cur)
  /\ pc = "acc_done" =>
       /\ \A k \in RootsOf(rows) :
            rows[k].m_accResident = raw0[k] + SumOver(AccOf(rows), ChildrenOf(rows, k))
       /\ (SameLinks(rows, ScenarioOrphan) /\ raw0 = RawOf(ScenarioOrphan))
            => AccOf(rows) = <<5>>

\* A row with a missing, non-null parent has been accumulated with a child below it.
C7_Witness ==
  /\ pc = "acc_done" /\ pass = 1
  /\ \E k \in RootsOf(rows) :
       /\ rows[k].parent # NULL
       /\ ChildrenOf(rows, k) # {}
       /\ rows[k].m_accResident > raw0[k]

\* --------------------------------------------- claims on the scan cycle

\* The cycle has passed the assertion of line 149.
Proceeding ==
  \/ pc \in {"reset", "tables", "prepare", "iterate", "cleanup",
             "acc_reset", "acc_outer", "acc_call", "acc_copy", "acc_done"}
  \/ pc = "ready" /\ cycle >= 1

\* The hook calls of a whole cycle over the registry tbls.
RECURSIVE FullLog(_)
FullLog(tbls) ==
  IF tbls = <<>> THEN <<>>
  ELSE <<<<"prepare", Head(tbls)>>, <<"iterate", Head(tbls)>>, <<"cleanup", Head(tbls)>>>>
       \o FullLog(Tail(tbls))

IsPrefix(a, b) == Len(a) <= Len(b) /\ SubSeq(b, 1, Len(a)) = a

\* The table loop of the current cycle has ended.
TablesDone ==
  \/ pc \in {"acc_reset", "acc_outer", "acc_call", "acc_copy", "acc_done"}
  \/ pc = "ready" /\ cycle >= 1

\* C2: in a cycle that proceeds the current logical time is greater than the
\* previous one; the first cycle has previous 0 and current 1; from the second
\* cycle on the previous time is the current time of the cycle before.
C2_LogicalTimeAdvances ==
  /\ Proceeding => monotonicMs > prevMonotonicMs
  /\ cycle = 1 => prevMonotonicMs = 0 /\ monotonicMs = 1
  /\ cycle >= 2 => prevMonotonicMs = monoHist[cycle - 1]

\* Three cycles have run, each with a later time than the one before.
C2_Witness ==
  /\ pc = "ready" /\ cycle = 3
  /\ monoHist = <<1, 2, 3>> /\ prevMonotonicMs = 2 /\ monotonicMs = 3

\* C6: the hook calls of a cycle are prepare, ingest, cleanup of the first
\* registered table, then of the second, and so on in registration order, and
\* when the table loop has ended every table has had each hook exactly once.
C6_HooksInRegistrationOrder ==
  /\ cycle >= 1 => IsPrefix(log, FullLog(tables))
  /\ TablesDone =>
       /\ log = FullLog(tables)
       /\ \A t \in Range(tables), h \in {"prepare", "iterate", "cleanup"} :
            Cardinality({k \in 1..Len(log) : log[k] = <<h, t>>}) = 1

\* A cycle over two registered tables has made its six hook calls.
C6_Witness ==
  /\ pc = "ready" /\ cycle >= 1 /\ tableCount = 2
  /\ log = <<<<"prepare", tables[1]>>, <<"iterate", tables[1]>>, <<"cleanup", tables[1]>>,
             <<"prepare", tables[2]>>, <<"iterate", tables[2]>>, <<"cleanup", tables[2]>>>>

\* C8: after the first cycle, a timestamp that is not greater than the previous
\* logical time aborts the scan, and at the abort the running maximum user id
\* is still what it was on entry, no hook has been called in the cycle and the
\* accumulator has not run for it; no cycle proceeds with such a timestamp.
C8_ClockRegressionAborts ==
  /\ pc = "aborted" =>
       /\ cycle >= 2 /\ monotonicMs <= prevMonotonicMs
       /\ maxUserId = entryMaxUid
       /\ log = <<>>
       /\ pass = cycle - 1
  /\ (cycle >= 2 /\ monotonicMs <= prevMonotonicMs) => pc \in {"assert", "aborted"}

\* The scan has aborted on a timestamp equal to the previous logical time, with
\* a table registered and a non-zero running maximum left from the cycle before.
C8_Witness ==
  /\ pc = "aborted"
  /\ monotonicMs = prevMonotonicMs
  /\ tableCount >= 1
  /\ maxUserId = 1

Edges(rws) == Cardinality({k \in Indices(rws) : ~Dangling(rws, k)})

\* The (child, parent) pairs of positions that line 110 accepts.
ChildPairs(rws) ==
  {p \in Indices(rws) \X Indices(rws) : ~IsSelf(p[1], p[2]) /\ IsChild(rws, p[1], p[2])}

WideScenarioRan == SameLinks(rows, ScenarioWide)

\* C11: the row visits and row comparisons of one pass over n rows with e
\* parent edges are bounded by a constant times n + e (here the constant 3).
C11_LinearWork ==
  pc = "acc_done" => visits + compares <= 3 * (Len(rows) + Edges(rows))

\* What the pass does instead: the body of every row compares the row with
\* each of the other n - 1 rows, so a pass makes n * (n - 1) comparisons
\* whatever the number of edges, and one call per row and per accepted pair.
C11_QuadraticWork ==
  pc \in {"acc_copy", "acc_done"} =>
    /\ compares = Len(rows) * (Len(rows) - 1)
    /\ visits = Len(rows) + Cardinality(ChildPairs(rows))

\* C12: a call that reaches a row already in progress (a frame below it is
\* summing the same row) returns at once, and what it returns to be added, the
\* row's current m_accResident, is the row's own raw value (ids distinct).
C12_InProgressChildContributesRawOnly ==
  (pc = "acc_call" /\ DistinctIds(rows)) =>
    \A d \in 1..(Len(stack) - 1) :
      (Top.phase = "enter" /\ stack[d].cur = Top.cur) =>
        /\ Memoized(rows, Top.cur)
        /\ rows[Top.cur].m_accResident = raw0[Top.cur]

\* ------------------------------------------- claims on the order of a scan

\* C13: the accumulator starts only when every hook of every registered table
\* has run in the cycle, and it starts once per cycle; the maximum user id is
\* published only when the accumulator has finished, once per cycle; a scan
\* that has returned has run the accumulator and published exactly once.
C13_AccumulatorOnceAfterHooksThenPublish ==
  /\ [][pass' # pass =>
          /\ log = FullLog(tables)
          /\ pass = cycle - 1 /\ pass' = cycle]_vars
  /\ [][published' # published =>
          /\ pc = "acc_done" /\ stack = <<>> /\ ai > Len(rows)
          /\ pass = cycle
          /\ published = cycle - 1 /\ published' = cycle]_vars
  /\ []((pc = "ready" /\ cycle >= 1) => (pass = cycle /\ published = cycle))

\* The second scan over two tables has returned: two passes, two publications.
C13_Witness ==
  /\ pc = "ready" /\ cycle = 2 /\ tableCount = 2
  /\ pass = 2 /\ published = 2 /\ Len(rows) >= 1

\* The row vector of the pass as it was when the pass started.
RowsAtStart ==
  [k \in 1..Len(rows) |-> Row(links0[k][1], links0[k][2], raw0[k], accPrev[k])]

\* C14: for distinct ids and acyclic links, running the pass over any
\* permutation of the row vector gives each row the accumulated value that the
\* pass over the vector as it stands has given it.
C14_OrderIndependent ==
  (pc = "acc_done" /\ DistinctIds(rows) /\ Acyclic(rows)) =>
    \A f \in Permutations(Indices(rows)) :
      LET permuted == [k \in Indices(rows) |-> RowsAtStart[f[k]]]
          result == PopulateAccumulatedFields(permuted)
      IN \A k \in Indices(rows) : result[k].m_accResident = rows[f[k]].m_accResident

\* A chain of three rows, each standing before its parent, has been summed.
C14_Witness ==
  /\ pc = "acc_done" /\ pass = 1 /\ Len(rows) = 3 /\ DistinctIds(rows)
  /\ rows[1].parent = rows[2].id /\ rows[2].parent = rows[3].id /\ Dangling(rows, 3)
  /\ AccOf(rows) = <<1, 2, 3>>

\* C15: when the pass starts every row holds the sentinel; the summing body
\* runs at most once per row and a row holds the sentinel exactly as long as
\* its body has not run; a visit of a computed row runs no body and leaves the
\* row as it is; when the loop has ended every body has run once and no row
\* holds the sentinel.
C15_ResetThenComputedOnce ==
  /\ []((pc = "acc_outer" /\ ai = 1) =>
          \A k \in Indices(rows) :
            rows[k].m_accResident = UNCOMPUTED /\ bodyRuns[k] = 0)
  /\ [](pc \in {"acc_outer", "acc_call", "acc_copy", "acc_done"} =>
          \A k \in Indices(rows) :
            /\ bodyRuns[k] <= 1
            /\ bodyRuns[k] = 0 <=> rows[k].m_accResident = UNCOMPUTED)
  /\ [][(pc = "acc_call" /\ Top.phase = "enter" /\ Memoized(rows, Top.cur)) =>
          /\ bodyRuns' = bodyRuns
          /\ rows'[Top.cur] = rows[Top.cur]]_vars
  /\ [](pc \in {"acc_copy", "acc_done"} =>
          \A k \in Indices(rows) :
            bodyRuns[k] = 1 /\ rows[k].m_accResident >= 0)

\* The second pass over three rows has ended; a row with two children was
\* visited three times and summed once.
C15_Witness ==
  /\ pc = "acc_done" /\ pass = 2 /\ Len(rows) = 3
  /\ Cardinality(ChildrenOf(rows, 1)) = 2 /\ visits > 3
  /\ bodyRuns = <<1, 1, 1>>

\* C16: the running maximum is zero when the table loop starts, it is the
\* largest user id observed in the cycle while the loop runs and until the
\* scan returns, and the value published by a scan that has returned is the
\* largest user id observed in that cycle (zero when none was observed).
C16_PublishedIsMaxOfThisCycle ==
  /\ (pc = "tables" /\ ti = 1) => maxUserId = 0
  /\ pc \in {"tables", "prepare", "iterate", "cleanup", "acc_reset", "acc_outer",
             "acc_call", "acc_copy", "acc_done"} => maxUserId = seenMax
  /\ (pc = "ready" /\ cycle >= 1) => uidColumnWidth = seenMax

\* A scan that observed no user id above zero has returned and published zero
\* although the running maximum was one when the scan was entered.
C16_Witness ==
  /\ pc = "ready" /\ cycle >= 2
  /\ entryMaxUid = 1 /\ seenMax = 0 /\ uidColumnWidth = 0
  /\ Len(log) >= 3

\* C17: the pass leaves every row's m_resident, id and parent as they were
\* when the pass started (ids distinct).
C17_PassWritesOnlyAccumulated ==
  (pc = "acc_done" /\ DistinctIds(rows)) =>
    (RawOf(rows) = raw0 /\ LinksOf(rows) = links0)

\* C18 as stated: once Machine_populateTablesFromSettings has returned the
\* process table is registered, so the accumulator always reads rows that the
\* table loop of the same cycle has refreshed.
C18_ProcessTableRegistered ==
  /\ (pc = "ready" /\ populateCalls >= 1) => processTable \in Range(tables)
  /\ pc = "acc_reset" => dataStamp[processTable] = cycle

\* C18 amended: an iteration for a screen that has no table of its own, or
\* names the process table, leaves the process table registered; the tables
\* of the settings are registered when the call has returned and, after a
\* single call, no other; the accumulator reads rows refreshed in the same
\* cycle exactly when the process table is registered.
C18_RegisteredWhenAScreenUsesIt ==
  /\ [][(pc = "populating" /\ si <= Len(settings)
           /\ settings[si] \in {NULL, processTable}) =>
          (processTable \in Range(tables') /\ settings'[si] = processTable)]_vars
  /\ []((pc = "ready" /\ populateCalls >= 1) =>
          /\ Range(settings) \subseteq Range(tables)
          /\ populateCalls = 1 => Range(tables) = Range(settings))
  /\ [](pc = "acc_reset" =>
          (processTable \in Range(tables) <=> dataStamp[processTable] = cycle))

\* The accumulator is about to read rows that the second table of the
\* registry, the process table, has ingested in this cycle.
C18_Witness ==
  /\ pc = "acc_reset" /\ tableCount = 2 /\ tables[2] = processTable
  /\ dataStamp[processTable] = cycle /\ Len(rows) = 2

\* C19 as stated: after the pass every row's accumulated value lies between
\* its raw value and the sum of the raw values of all rows, whatever the links.
C19_BoundedByTotal ==
  (pc = "acc_done" /\ DistinctIds(rows)) =>
    \A k \in Indices(rows) :
      /\ raw0[k] <= rows[k].m_accResident
      /\ rows[k].m_accResident <= SumOver(raw0, Indices(rows))

\* C19 amended: the bounds hold when ids are distinct and links are acyclic.
C19_BoundedByTotalIfAcyclic ==
  (pc = "acc_done" /\ DistinctIds(rows) /\ Acyclic(rows)) =>
    \A k \in Indices(rows) :
      /\ raw0[k] <= rows[k].m_accResident
      /\ rows[k].m_accResident <= SumOver(raw0, Indices(rows))

\* A root with two children, all of raw value one, holds the total three.
C19_Witness ==
  /\ pc = "acc_done" /\ pass = 1 /\ DistinctIds(rows) /\ Acyclic(rows)
  /\ Len(rows) = 3 /\ raw0 = <<1, 1, 1>>
  /\ ChildrenOf(rows, 2) = {1, 3}
  /\ rows[2].m_accResident = 3
====
